---- MODULE Spec2Model ----
(***************************************************************************)
(* Claude-Code-Usage-Monitor: the calibration store                        *)
(* (src/src/claude_monitor/data/calibration.py) and the session display    *)
(* (src/src/claude_monitor/ui/session_display.py).                         *)
(*                                                                         *)
(* Numbers: estimated_pct / actual_pct are fixed-point hundredths of a     *)
(* percent (the code rounds to 2 decimals); add_sample's inputs are        *)
(* thousandths.  A multiplier is an exact fraction <<n, d>> in lowest      *)
(* terms.  A file is a sequence of tokens: "[" , one token per list        *)
(* element, "]"; a partially written file is a proper prefix.              *)
(***************************************************************************)
EXTENDS Integers, Sequences, FiniteSets, TLC

\* ------------------------------------------------------------------ bounds
MaxCalls == 3
MaxCallsLong == 22
MaxVaried == 1
MaxConcCalls == 2
MaxFaultCalls == 2
MaxTripCalls == 3

\* --------------------------------------------------------------- constants
MAX_SAMPLES == 20

Procs == {1, 2}

\* add_sample inputs <<estimated, actual>> in thousandths of a percent
DefaultInput == <<10000, 12000>>
Inputs == {DefaultInput, <<0, 5000>>, <<20004, 8125>>, <<-5000, 3000>>}

VARIABLES
    dirExists,  \* the config directory exists
    names,      \* directory entries: "json" / "tmp" -> inode (0: no entry)
    inodes,     \* inode -> file content (a token sequence)
    pc,         \* per process: "none" | "idle" | "mkdir" | "open" | "write" | "replace"
    samples,    \* per process: CalibrationStore._samples
    fd,         \* per process: the inode open for writing (0: none)
    off,        \* per process: the open file's write offset
    buf,        \* per process: what json.dump is writing
    ret,        \* per process: what the last get_multiplier call returned
    clock,      \* datetime.now
    added,      \* every sample add_sample appended so far, in call order
    varied      \* add_sample calls made with a non-default input

storeVars == <<dirExists, names, inodes, pc, samples, fd, off, buf, ret, clock, added, varied>>

VARIABLES
    rin,        \* the arguments of the last format_active_session_screen call
    screen,     \* the screen_buffer it returned
    notif,      \* the lines _add_notifications appended to it
    fmtIn,      \* the argument of the last _format_reset_time call, and now
    fmtOut      \* what it returned

renderVars == <<rin, screen, notif, fmtIn, fmtOut>>

vars == <<storeVars, renderVars>>

\* ------------------------------------------------------------------ tokens
Tok(k) == [kind |-> k, ts |-> 0, est |-> 0, act |-> 0]
Sample(t, e, a) == [kind |-> "sample", ts |-> t, est |-> e, act |-> a]
Open == Tok("[")
Close == Tok("]")
Hole == Tok("hole")
Absent == <<Tok("absent")>>
\* JSON values a list element can be: a sample record, {} , a record whose
\* estimated_pct is a string, a bare number
ValueKinds == {"sample", "emptydict", "strdict", "number"}

\* ----------------------------------------------------------- pure helpers
Min(a, b) == IF a < b THEN a ELSE b
Max(a, b) == IF a > b THEN a ELSE b
Abs(x) == IF x < 0 THEN -x ELSE x

RECURSIVE GCD(_, _)
GCD(a, b) == IF b = 0 THEN a ELSE GCD(b, a % b)

\* a fraction in lowest terms with a positive denominator
Rat(n, d) ==
    LET g == GCD(Abs(n), Abs(d))
        s == IF d < 0 THEN -1 ELSE 1
    IN <<(s * n) \div g, (s * d) \div g>>

RatAdd(x, y) == Rat(x[1] * y[2] + y[1] * x[2], x[2] * y[2])

\* round(x, 2): thousandths -> hundredths; a tie (a float is exactly on one
\* only at .125, .375, .625, .875) goes to the even neighbour
Round2(x) ==
    LET q == x \div 10
        r == x % 10
    IN IF r < 5 THEN q
       ELSE IF r > 5 THEN q + 1
       ELSE IF q % 2 = 0 THEN q ELSE q + 1

\* json.dump(self._samples, f): the tokens written, in order
Serialize(h) == <<Open>> \o h \o <<Close>>

\* json.load succeeds on this content
ParseOk(c) ==
    \/ Len(c) = 1 /\ c[1].kind \in ValueKinds
    \/ /\ Len(c) >= 2
       /\ c[1] = Open
       /\ c[Len(c)] = Close
       /\ \A i \in 2..(Len(c) - 1) : c[i].kind \in ValueKinds

\* isinstance(data, list)
IsList(c) == ParseOk(c) /\ Len(c) >= 2

ListOf(c) == SubSeq(c, 2, Len(c) - 1)

FileContent(n) == IF names[n] = 0 THEN Absent ELSE inodes[names[n]]

\* mutant of LoadSamples: the file is not read
LoadSamplesSkipped(cur) == cur

\* _load: the value of self._samples after it, from its value before
LoadSamples(cur) ==
    IF names["json"] # 0
    THEN LET c == inodes[names["json"]]
         IN IF IsList(c) THEN ListOf(c) ELSE <<>>
    ELSE cur

\* mutant of Truncate: keeps the first MAX_SAMPLES, s[:MAX_SAMPLES]
TruncateKeepsFirst(s) ==
    IF Len(s) <= MAX_SAMPLES THEN s ELSE SubSeq(s, 1, MAX_SAMPLES)

\* self._samples[-self.MAX_SAMPLES:]
Truncate(s) ==
    IF Len(s) <= MAX_SAMPLES THEN s
    ELSE SubSeq(s, Len(s) - MAX_SAMPLES + 1, Len(s))

RetNone == [kind |-> "none", n |-> 0, d |-> 1]
RetValue(q) == [kind |-> "value", n |-> q[1], d |-> q[2]]
RetRaise == [kind |-> "raise", n |-> 0, d |-> 1]

\* s.get("estimated_pct", 0) / s.get("actual_pct", 0) on a dict
EstOf(e) == IF e.kind = "sample" THEN e.est ELSE 0
ActOf(e) == IF e.kind = "sample" THEN e.act ELSE 0

\* mutant of Counts: "if est:", which lets a negative estimate in
CountsNonZero(e) == EstOf(e) # 0

\* the loop body's test: does this element join ratios
Counts(e) == EstOf(e) > 0

\* the ratios list built by the loop of get_multiplier
RECURSIVE Ratios(_)
Ratios(s) ==
    IF s = <<>> THEN <<>>
    ELSE LET e == Head(s)
         IN IF Counts(e) THEN <<Rat(ActOf(e), EstOf(e))>> \o Ratios(Tail(s))
            ELSE Ratios(Tail(s))

RECURSIVE SumRat(_)
SumRat(r) == IF r = <<>> THEN <<0, 1>> ELSE RatAdd(Head(r), SumRat(Tail(r)))

\* s.get raises on a non-dict element, est > 0 raises on a string
Raises(s) == \E i \in 1..Len(s) : s[i].kind \in {"number", "strdict"}

\* get_multiplier after its _load, on the loaded samples
MultiplierOf(s) ==
    IF s = <<>> THEN RetValue(<<1, 1>>)
    ELSE IF Raises(s) THEN RetRaise
    ELSE LET r == Ratios(s)
         IN IF r = <<>> THEN RetValue(<<1, 1>>)
            ELSE LET t == SumRat(r) IN RetValue(Rat(t[1], t[2] * Len(r)))

\* ------------------------------------------------------------- file system
NInodes == Cardinality(Procs) + 2

InUse(nm, f) == {nm["json"], nm["tmp"]} \cup {f[p] : p \in Procs}

FreshInode == CHOOSE i \in 1..NInodes : i \notin InUse(names, fd) /\
                  \A j \in 1..NInodes : j \notin InUse(names, fd) => i <= j

\* an inode with no directory entry and no open descriptor is gone
Reclaim(ino, nm, f) == [i \in 1..NInodes |-> IF i \in InUse(nm, f) THEN ino[i] ELSE <<>>]

\* write(2) of one token at an offset: past the end leaves a hole
WriteAt(c, o, t) ==
    IF o < Len(c) THEN [c EXCEPT ![o + 1] = t]
    ELSE c \o [i \in 1..(o - Len(c)) |-> Hole] \o <<t>>

\* mutant of TempName: _save writes calibration.json in place
TempNameInPlace == "json"

\* the file the temporary content is written to: file_path.with_suffix(".tmp")
TempName == "tmp"

\* ---------------------------------------------------------- the display
\* Percentages are thousandths of a percent (134.0% is 134000), money is
\* cents, a calibration multiplier is hundredths (1.5 is 150), utilization
\* is thousandths (0.42 is 420, 134.0 is 134000), time is whole seconds.
\* A line of the screen is a record: its tag, and for a bar its colour, its
\* filled segments (of 50) and the tenths of a percent printed beside it.

Line(tag) == [tag |-> tag, color |-> "", filled |-> 0, shown |-> 0,
              label |-> "", hours |-> 0, mins |-> 0, reset |-> <<>>]
Blank == Line("blank")
Separator == Line("separator")

\* time_utils.percentage(part, whole)
Percentage(part, whole) == (part * 100000) \div whole

\* the text of f"{pct:4.1f}": tenths of a percent
Shown(pct) == (pct + 50) \div 100

\* TokenProgressBar(width=50)._calculate_filled_segments(pct, 100.0)
CalculateFilledSegments(pct, top) == (50 * Max(0, Min(pct, top))) \div top

\* _render_wide_progress_bar: the colour and the filled segments
RenderWideProgressBar(pct) ==
    [color |-> IF pct < 50000 THEN "green"
               ELSE IF pct < 80000 THEN "yellow" ELSE "red",
     filled |-> IF pct >= 100000 THEN 50
                ELSE CalculateFilledSegments(Min(pct, 100000), 100000)]

\* a line with a wide bar and the percentage printed beside it
BarLine(tag, pct, label, reset) ==
    [Line(tag) EXCEPT !.color = RenderWideProgressBar(pct).color,
                      !.filled = RenderWideProgressBar(pct).filled,
                      !.shown = Shown(pct),
                      !.label = label,
                      !.reset = reset]

Word(n, u) == [n |-> n, u |-> u]

\* mutant of HoursOf: the days are not taken out first
HoursOfNoWrap(total) == total \div 3600

\* _format_reset_time: hours = (total_seconds % 86400) // 3600
HoursOf(total) == (total % 86400) \div 3600

\* _format_reset_time: the words of the string returned (<<>>: "")
FormatResetTime(resets_at, now) ==
    IF resets_at.kind # "iso" THEN <<>>
    ELSE LET total_seconds == Max(0, resets_at.t - now)
             days == total_seconds \div 86400
             hours == HoursOf(total_seconds)
             minutes == (total_seconds % 3600) \div 60
             p1 == IF days > 0 THEN <<Word(days, "d")>> ELSE <<>>
             p2 == IF hours > 0 THEN p1 \o <<Word(hours, "h")>> ELSE p1
             p3 == IF minutes > 0 \/ p2 = <<>>
                   THEN p2 \o <<Word(minutes, "m")>> ELSE p2
         IN IF total_seconds = 0 THEN <<Word(0, "now")>>
            ELSE <<Word(0, "in")>> \o p3

\* _render_api_usage: one window's line, or nothing
ApiWindowLine(window, tag, now) ==
    IF ~window.present THEN <<>>
    ELSE LET utilization == window.utilization
             pct == IF utilization <= 1000 THEN utilization * 100 ELSE utilization
             reset_str == IF window.resets_at.kind # "empty"
                          THEN FormatResetTime(window.resets_at, now) ELSE <<>>
         IN <<BarLine(tag, pct, "", reset_str)>>

\* _render_api_usage: the lines it appends
RenderApiUsage(api_usage, now) ==
    <<Blank, Line("official_title")>>
    \o ApiWindowLine(api_usage.five_hour, "official_5h", now)
    \o ApiWindowLine(api_usage.seven_day, "official_7d", now)
    \o <<Separator>>

\* mutant of SwitchFires: the limits are not compared
SwitchFiresOnFlag(show_switch_notification, token_limit, original_limit) ==
    show_switch_notification

\* _add_notifications: the test of its first notification
SwitchFires(show_switch_notification, token_limit, original_limit) ==
    show_switch_notification /\ token_limit > original_limit

\* _add_notifications: the buffer after it
AddNotifications(buffer, show_switch_notification, show_exceed_notification, show_tokens_will_run_out, original_limit, token_limit) ==
    LET b1 == IF SwitchFires(show_switch_notification, token_limit, original_limit)
              THEN Append(buffer, Line("limit_exceeded")) ELSE buffer
        b2 == IF show_exceed_notification
              THEN Append(b1, Line("cost_limit_exceeded")) ELSE b1
        b3 == IF show_tokens_will_run_out
              THEN Append(b2, Line("will_exceed_before_reset")) ELSE b2
        notifications_added ==
              \/ SwitchFires(show_switch_notification, token_limit, original_limit)
              \/ show_exceed_notification
              \/ show_tokens_will_run_out
    IN IF notifications_added THEN Append(b3, Blank) ELSE b3

\* mutant of CappedPercentage: the percentage is not capped at 100
UncappedPercentage(part, limit) ==
    IF limit > 0 THEN Percentage(part, limit) ELSE 0

\* format_active_session_screen: cost_percentage and messages_percentage
CappedPercentage(part, limit) ==
    IF limit > 0 THEN Min(100000, Percentage(part, limit)) ELSE 0

\* mutant of PredictedPct: the cap is applied whatever the multiplier
PredictedPctAlwaysCapped(cost_percentage, usage_percentage, messages_percentage, calibration_multiplier) ==
    Min(100000, (Max(cost_percentage, Max(usage_percentage, messages_percentage))
                 * calibration_multiplier) \div 100)

\* format_active_session_screen: predicted_pct
PredictedPct(cost_percentage, usage_percentage, messages_percentage, calibration_multiplier) ==
    LET predicted_pct == Max(cost_percentage, Max(usage_percentage, messages_percentage))
    IN IF calibration_multiplier # 100
       THEN Min(100000, (predicted_pct * calibration_multiplier) \div 100)
       ELSE predicted_pct

\* format_active_session_screen: the branch of the tiered plans
TieredLines(r) ==
    LET cost_percentage == CappedPercentage(r.session_cost, r.cost_limit_p90)
        messages_percentage == CappedPercentage(r.sent_messages, r.messages_limit_p90)
        usage ==
            IF r.api_usage.kind = "dict"
            THEN RenderApiUsage(r.api_usage, r.now)
            ELSE <<Blank,
                   BarLine("predicted",
                           PredictedPct(cost_percentage, r.usage_percentage,
                                        messages_percentage, r.calibration_multiplier),
                           IF r.calibration_multiplier # 100 THEN "Cal." ELSE "Est.",
                           <<>>)>>
        limits ==
            IF r.plan = "custom"
            THEN <<Line("dynamic_limits_title"), Line("dynamic_limits_note"), Separator>>
            ELSE <<Blank>>
        time_percentage ==
            IF r.total_session_minutes > 0
            THEN Percentage(r.elapsed_session_minutes, r.total_session_minutes) ELSE 0
        time_remaining == Max(0, r.total_session_minutes - r.elapsed_session_minutes)
        time_bar == [BarLine("time_bar", time_percentage, "", <<>>) EXCEPT
                        !.shown = 0,
                        !.hours = time_remaining \div 60,
                        !.mins = time_remaining % 60]
    IN usage \o <<Blank>> \o limits
       \o <<BarLine("cost_bar", cost_percentage, "", <<>>), Blank,
            BarLine("token_bar", r.usage_percentage, "", <<>>), Blank,
            BarLine("messages_bar", messages_percentage, "", <<>>), Separator,
            time_bar, Blank,
            Line("model_distribution"), Separator,
            Line("burn_rate"), Line("cost_rate")>>

\* format_active_session_screen: the branch of every other plan
FallbackLines(r) ==
    <<Line("session_cost"), Line("cost_rate"), Blank,
      Line("token_bar_narrow"), Blank,
      Line("tokens"), Line("burn_rate"), Line("sent_messages")>>
    \o (IF r.has_models THEN <<Line("model_usage")>> ELSE <<>>)
    \o <<Blank, Line("time_bar_narrow"), Blank>>

\* format_active_session_screen: the buffer when _add_notifications is called
BeforeNotifications(r) ==
    <<Line("header")>>
    \o (IF r.plan \in {"custom", "pro", "max5", "max20"}
        THEN TieredLines(r) ELSE FallbackLines(r))
    \o <<Blank, Line("predictions_title"), Line("tokens_run_out"),
         Line("limit_resets"), Blank>>

\* format_active_session_screen: the screen_buffer returned
FormatActiveSessionScreen(r) ==
    Append(AddNotifications(BeforeNotifications(r),
                            r.show_switch_notification, r.show_exceed_notification,
                            r.show_tokens_will_run_out, r.original_limit, r.token_limit),
           Line("footer"))

\* -------------------------------------------------------------------- Init
InitStore ==
    /\ dirExists \in BOOLEAN
    /\ names = [n \in {"json", "tmp"} |-> 0]
    /\ inodes = [i \in 1..NInodes |-> <<>>]
    /\ pc = [p \in Procs |-> "none"]
    /\ samples = [p \in Procs |-> <<>>]
    /\ fd = [p \in Procs |-> 0]
    /\ off = [p \in Procs |-> 0]
    /\ buf = [p \in Procs |-> <<>>]
    /\ ret = [p \in Procs |-> RetNone]
    /\ clock = 1
    /\ added = <<>>
    /\ varied = 0

NoRender == [plan |-> "none"]
NoFormat == [kind |-> "none", t |-> 0, now |-> 0]

InitRender ==
    /\ rin = NoRender
    /\ screen = <<>>
    /\ notif = <<>>
    /\ fmtIn = NoFormat
    /\ fmtOut = <<>>

Init == InitStore /\ InitRender

\* ----------------------------------------------------------------- actions
\* CalibrationStore.__init__
Construct(p) ==
    /\ pc[p] = "none"
    /\ samples' = [samples EXCEPT ![p] = LoadSamples(<<>>)]
    /\ pc' = [pc EXCEPT ![p] = "idle"]
    /\ UNCHANGED <<renderVars, dirExists, names, inodes, fd, off, buf, ret, clock, added, varied>>

\* add_sample up to its call of _save
AddSample(p, in) ==
    /\ pc[p] = "idle"
    /\ LET s == Sample(clock, Round2(in[1]), Round2(in[2]))
       IN /\ samples' = [samples EXCEPT ![p] = Truncate(Append(samples[p], s))]
          /\ added' = Append(added, s)
    /\ varied' = IF in = DefaultInput THEN varied ELSE varied + 1
    /\ clock' = clock + 1
    /\ pc' = [pc EXCEPT ![p] = "mkdir"]
    /\ UNCHANGED <<renderVars, dirExists, names, inodes, fd, off, buf, ret>>

\* _save: self.config_dir.mkdir(parents=True, exist_ok=True)
SaveMkdir(p) ==
    /\ pc[p] = "mkdir"
    /\ dirExists' = TRUE
    /\ pc' = [pc EXCEPT ![p] = "open"]
    /\ UNCHANGED <<renderVars, names, inodes, samples, fd, off, buf, ret, clock, added, varied>>

\* _save: open(temp, "w") creates the file or truncates the existing one
SaveOpen(p) ==
    /\ pc[p] = "open"
    /\ IF names[TempName] # 0
       THEN /\ fd' = [fd EXCEPT ![p] = names[TempName]]
            /\ inodes' = [inodes EXCEPT ![names[TempName]] = <<>>]
            /\ names' = names
       ELSE /\ fd' = [fd EXCEPT ![p] = FreshInode]
            /\ inodes' = [inodes EXCEPT ![FreshInode] = <<>>]
            /\ names' = [names EXCEPT ![TempName] = FreshInode]
    /\ off' = [off EXCEPT ![p] = 0]
    /\ buf' = [buf EXCEPT ![p] = Serialize(samples[p])]
    /\ pc' = [pc EXCEPT ![p] = "write"]
    /\ UNCHANGED <<renderVars, dirExists, samples, ret, clock, added, varied>>

\* _save: json.dump writes the next token; after the last one the with block
\* closes the file
SaveWrite(p) ==
    /\ pc[p] = "write"
    /\ LET done == off[p] + 1 = Len(buf[p])
           fd2 == IF done THEN [fd EXCEPT ![p] = 0] ELSE fd
       IN /\ inodes' = Reclaim([inodes EXCEPT ![fd[p]] =
                                   WriteAt(inodes[fd[p]], off[p], buf[p][off[p] + 1])],
                               names, fd2)
          /\ fd' = fd2
          /\ off' = [off EXCEPT ![p] = IF done THEN 0 ELSE off[p] + 1]
          /\ buf' = [buf EXCEPT ![p] = IF done THEN <<>> ELSE buf[p]]
          /\ pc' = [pc EXCEPT ![p] = IF done THEN "replace" ELSE "write"]
    /\ UNCHANGED <<renderVars, dirExists, names, samples, ret, clock, added, varied>>

\* _save: temp.replace(self.file_path), an atomic rename; with no temporary
\* file it raises FileNotFoundError, which _save logs
SaveReplace(p) ==
    /\ pc[p] = "replace"
    /\ IF names[TempName] # 0
       THEN LET nm == [names EXCEPT !["json"] = names[TempName], ![TempName] = 0]
            IN /\ names' = nm
               /\ inodes' = Reclaim(inodes, nm, fd)
       ELSE UNCHANGED <<names, inodes>>
    /\ pc' = [pc EXCEPT ![p] = "idle"]
    /\ UNCHANGED <<renderVars, dirExists, samples, fd, off, buf, ret, clock, added, varied>>

\* _save: any step raises (unwritable directory or file, full disk); the
\* except clause logs it and _save returns
SaveFail(p) ==
    /\ pc[p] \in {"mkdir", "open", "write", "replace"}
    /\ LET fd2 == [fd EXCEPT ![p] = 0]
       IN /\ fd' = fd2
          /\ inodes' = Reclaim(inodes, names, fd2)
    /\ off' = [off EXCEPT ![p] = 0]
    /\ buf' = [buf EXCEPT ![p] = <<>>]
    /\ pc' = [pc EXCEPT ![p] = "idle"]
    /\ UNCHANGED <<renderVars, dirExists, names, samples, ret, clock, added, varied>>

\* the process dies (at any point, also in the middle of _save)
Crash(p) ==
    /\ pc[p] # "none"
    /\ LET fd2 == [fd EXCEPT ![p] = 0]
       IN /\ fd' = fd2
          /\ inodes' = Reclaim(inodes, names, fd2)
    /\ off' = [off EXCEPT ![p] = 0]
    /\ buf' = [buf EXCEPT ![p] = <<>>]
    /\ samples' = [samples EXCEPT ![p] = <<>>]
    /\ ret' = [ret EXCEPT ![p] = RetNone]
    /\ pc' = [pc EXCEPT ![p] = "none"]
    /\ UNCHANGED <<renderVars, dirExists, names, clock, added, varied>>

\* get_multiplier
GetMultiplier(p) ==
    /\ pc[p] = "idle"
    /\ samples' = [samples EXCEPT ![p] = LoadSamples(samples[p])]
    /\ ret' = [ret EXCEPT ![p] = MultiplierOf(LoadSamples(samples[p]))]
    /\ UNCHANGED <<renderVars, dirExists, names, inodes, pc, fd, off, buf, clock, added, varied>>

\* ------------------------------------------------------- specifications
\* add_sample, called by the one store instance of Spec
AddSampleOne ==
    \E in \in Inputs : Len(added) < MaxCalls /\ AddSample(1, in)

\* one store instance; its process may die and restart, and a write may fail
Next ==
    \/ Construct(1)
    \/ AddSampleOne
    \/ SaveMkdir(1)
    \/ SaveOpen(1)
    \/ SaveWrite(1)
    \/ SaveReplace(1)
    \/ SaveFail(1)
    \/ Crash(1)
    \/ GetMultiplier(1)

Spec == Init /\ [][Next]_vars

\* add_sample in SpecAdd: more calls than MAX_SAMPLES, of which at most
\* MaxVaried carry a non-default input
AddSampleLong ==
    \E in \in {DefaultInput, <<0, 5000>>} :
        /\ Len(added) < MaxCallsLong
        /\ in # DefaultInput => varied < MaxVaried
        /\ AddSample(1, in)

\* one store instance on an empty directory, every write succeeding
NextAdd ==
    \/ Construct(1)
    \/ AddSampleLong
    \/ SaveMkdir(1)
    \/ SaveOpen(1)
    \/ SaveWrite(1)
    \/ SaveReplace(1)
    \/ GetMultiplier(1)

SpecAdd == Init /\ [][NextAdd]_vars

\* add_sample in SpecConc, by either process
AddSampleConc ==
    \E p \in Procs : Len(added) < MaxConcCalls /\ AddSample(p, DefaultInput)

\* two processes, each with its own store instance on the same directory
NextConc ==
    \/ \E p \in Procs : Construct(p)
    \/ AddSampleConc
    \/ \E p \in Procs : SaveMkdir(p)
    \/ \E p \in Procs : SaveOpen(p)
    \/ \E p \in Procs : SaveWrite(p)
    \/ \E p \in Procs : SaveReplace(p)

SpecConc == Init /\ [][NextConc]_vars

\* what something other than the store may leave in calibration.json
ForeignContents ==
    { <<>>,
      <<Open>>,
      <<Tok("garbage")>>,
      <<Tok("emptydict")>>,
      <<Open, Close>>,
      <<Open, Tok("emptydict"), Close>>,
      <<Open, Tok("number"), Close>>,
      <<Open, Sample(0, 1000, 1500), Tok("strdict"), Close>>,
      <<Open, Sample(0, 1000, 1500), Close>> }

\* calibration.json is deleted
EnvUnlink ==
    /\ names["json"] # 0
    /\ LET nm == [names EXCEPT !["json"] = 0]
       IN /\ names' = nm
          /\ inodes' = Reclaim(inodes, nm, fd)
    /\ UNCHANGED <<renderVars, dirExists, pc, samples, fd, off, buf, ret, clock, added, varied>>

\* calibration.json is put there with a content of someone else's making
EnvReplace(c) ==
    /\ FileContent("json") # c
    /\ LET i == IF names["json"] # 0 THEN names["json"] ELSE FreshInode
       IN /\ names' = [names EXCEPT !["json"] = i]
          /\ inodes' = [inodes EXCEPT ![i] = c]
    /\ dirExists' = TRUE
    /\ UNCHANGED <<renderVars, pc, samples, fd, off, buf, ret, clock, added, varied>>

\* add_sample in SpecFaults
AddSampleFaulty ==
    \E in \in Inputs : Len(added) < MaxFaultCalls /\ AddSample(1, in)

\* one store instance; writes may fail and the file may be deleted or
\* replaced under it
NextFaults ==
    \/ Construct(1)
    \/ AddSampleFaulty
    \/ SaveMkdir(1)
    \/ SaveOpen(1)
    \/ SaveWrite(1)
    \/ SaveReplace(1)
    \/ SaveFail(1)
    \/ GetMultiplier(1)
    \/ EnvUnlink
    \/ \E c \in ForeignContents : EnvReplace(c)

SpecFaults == Init /\ [][NextFaults]_vars

\* add_sample in SpecTrip, by the first instance
AddSampleTrip ==
    \E in \in Inputs : Len(added) < MaxTripCalls /\ AddSample(1, in)

\* a first store instance whose writes succeed, and a second process that
\* constructs an instance on the same directory, asks it for the multiplier,
\* exits, and may do so again later
NextTrip ==
    \/ Construct(1)
    \/ AddSampleTrip
    \/ SaveMkdir(1)
    \/ SaveOpen(1)
    \/ SaveWrite(1)
    \/ SaveReplace(1)
    \/ GetMultiplier(1)
    \/ Construct(2)
    \/ GetMultiplier(2)
    \/ Crash(2)

SpecTrip == Init /\ [][NextTrip]_vars

\* ------------------------------------------------------ display inputs
MaxDays == 2

Plans == {"custom", "pro", "max5", "max20", "free"}
\* <<plan, per_model_stats is not empty>>
PlanCases == (Plans \X {TRUE}) \cup ({"custom", "free"} \X {FALSE})
UsagePercentages == {30000, 65000, 100000, 134000}
\* <<session_cost, cost_limit_p90>>
CostCases == {<<500, 1000>>, <<1340, 1000>>, <<500, 0>>}
\* <<sent_messages, messages_limit_p90>>
MessageCases == {<<300, 1500>>, <<2010, 1500>>}
\* <<elapsed_session_minutes, total_session_minutes>>
TimeCases == {<<30, 300>>, <<320, 300>>}
\* <<token_limit, original_limit>>
LimitCases == {<<44000, 19000>>, <<19000, 19000>>}
Multipliers == {100, 50, 150}

RenderNow == 1000
Reset(kind, t) == [kind |-> kind, t |-> t]
NoWindow == [present |-> FALSE, utilization |-> 0, resets_at |-> Reset("empty", 0)]
Window(u, r) == [present |-> TRUE, utilization |-> u, resets_at |-> r]
Api(kind, w5, w7) == [kind |-> kind, five_hour |-> w5, seven_day |-> w7]
\* api_usage: not given, {}, a dict whose windows are None, one window, both
NoApi == Api("none", NoWindow, NoWindow)
ApiCases ==
    { NoApi,
      Api("empty", NoWindow, NoWindow),
      Api("dict", NoWindow, NoWindow),
      Api("dict", Window(420, Reset("iso", RenderNow + 90000)), NoWindow),
      Api("dict", Window(1000, Reset("malformed", 0)),
                  Window(134000, Reset("empty", 0))) }

\* the calls of format_active_session_screen the model makes
RenderInputs ==
    { [plan |-> ph[1], usage_percentage |-> up,
       session_cost |-> cc[1], cost_limit_p90 |-> cc[2],
       sent_messages |-> mc[1], messages_limit_p90 |-> mc[2],
       elapsed_session_minutes |-> tc[1], total_session_minutes |-> tc[2],
       token_limit |-> lc[1], original_limit |-> lc[2],
       api_usage |-> am[1], calibration_multiplier |-> am[2],
       has_models |-> ph[2], now |-> RenderNow,
       show_switch_notification |-> f[1], show_exceed_notification |-> f[2],
       show_tokens_will_run_out |-> f[3]] :
      ph \in PlanCases, up \in UsagePercentages, cc \in CostCases, mc \in MessageCases,
      tc \in TimeCases, lc \in LimitCases,
      am \in ({NoApi} \X Multipliers) \cup ((ApiCases \ {NoApi}) \X {100}),
      f \in BOOLEAN \X BOOLEAN \X BOOLEAN }

\* resets_at values for _format_reset_time, by their distance from now
ResetInputs ==
    { Reset("iso", RenderNow + d * 86400 + h * 3600 + m * 60 + sec) :
        d \in 0..MaxDays, h \in 0..23, m \in {0, 1, 45, 59}, sec \in {0, 1, 59} }
    \cup { Reset("iso", RenderNow - 1), Reset("iso", RenderNow - 90000),
           Reset("malformed", 0), Reset("naive", RenderNow + 60), Reset("empty", 0) }

\* ------------------------------------------------------- display actions
\* one call of format_active_session_screen
Render ==
    /\ rin = NoRender
    /\ \E r \in RenderInputs :
          /\ rin' = r
          /\ screen' = FormatActiveSessionScreen(r)
          /\ notif' = SubSeq(FormatActiveSessionScreen(r),
                             Len(BeforeNotifications(r)) + 1,
                             Len(FormatActiveSessionScreen(r)) - 1)
    /\ UNCHANGED <<storeVars, fmtIn, fmtOut>>

\* the caller has written the lines to the terminal and dropped them
Discard ==
    /\ rin # NoRender
    /\ rin' = NoRender
    /\ screen' = <<>>
    /\ notif' = <<>>
    /\ UNCHANGED <<storeVars, fmtIn, fmtOut>>

\* the display component is constructed without a calibration directory
InitDisplay == Init /\ ~dirExists

NextRender ==
    \/ Render
    \/ Discard

SpecRender == InitDisplay /\ [][NextRender]_vars

\* one call of _format_reset_time
FormatReset ==
    /\ fmtIn = NoFormat
    /\ \E r \in ResetInputs :
          /\ fmtIn' = [kind |-> r.kind, t |-> r.t, now |-> RenderNow]
          /\ fmtOut' = FormatResetTime(r, RenderNow)
    /\ UNCHANGED <<storeVars, rin, screen, notif>>

\* the string has been used
Forget ==
    /\ fmtIn # NoFormat
    /\ fmtIn' = NoFormat
    /\ fmtOut' = <<>>
    /\ UNCHANGED <<storeVars, rin, screen, notif>>

NextReset ==
    \/ FormatReset
    \/ Forget

SpecReset == InitDisplay /\ [][NextReset]_vars

\* ------------------------------------------------------------------ claims
\* (the definitions from here on state the claims; none models the code)

\* the last n elements of s, by index
LastN(s, n) == [i \in 1..n |-> s[Len(s) - n + i]]

\* C1: from an empty store whose writes succeed, once k add_sample calls
\* have returned calibration.json holds exactly the last min(20, k) samples
\* added, in the order they were added (and does not exist while k = 0).
C1_PersistedIsLastSamples ==
    pc[1] = "idle" =>
        IF added = <<>> THEN names["json"] = 0
        ELSE /\ names["json"] # 0
             /\ IsList(FileContent("json"))
             /\ Len(ListOf(FileContent("json"))) = Min(20, Len(added))
             /\ ListOf(FileContent("json")) = LastN(added, Min(20, Len(added)))

\* C1 witness: more than 20 calls have returned, one of them with another
\* input than the rest, and the file holds 20 samples
C1_Witness ==
    /\ pc[1] = "idle"
    /\ Len(added) >= 22
    /\ varied > 0
    /\ names["json"] # 0
    /\ Len(FileContent("json")) = 22

\* C2: a step of _save, or a crash or failure within it, leaves
\* calibration.json as it was (absent or the complete previous history) or
\* makes it the complete serialization of the new history; it is never
\* partially written.
C2_SaveIsAtomic ==
    [][\/ FileContent("json")' = FileContent("json")
       \/ /\ pc[1] = "replace"
          /\ FileContent("json")' = Serialize(samples[1])
          /\ IsList(FileContent("json")')]_vars

\* C2 witness: the process died in the middle of writing the temporary
\* file, which is left partial, while calibration.json holds the complete
\* previous history
C2_Witness ==
    /\ pc[1] = "none"
    /\ names["tmp"] # 0
    /\ FileContent("tmp") # <<>>
    /\ ~ParseOk(FileContent("tmp"))
    /\ names["json"] # 0
    /\ IsList(FileContent("json"))
    /\ Len(added) >= 2

\* C3: with two processes adding samples concurrently, calibration.json is
\* at every moment absent or a complete list of samples.
C3_NeverCorrupt ==
    \/ names["json"] = 0
    \/ /\ IsList(FileContent("json"))
       /\ \A i \in 1..Len(ListOf(FileContent("json"))) :
              ListOf(FileContent("json"))[i].kind = "sample"

\* the history calibration.json holds: empty when the file is missing,
\* unparseable or not a list
FileHistory ==
    IF names["json"] # 0 /\ IsList(FileContent("json"))
    THEN ListOf(FileContent("json")) ELSE <<>>

\* C4: get_multiplier returns what the file's content alone determines:
\* the result computed from the file's history, 1.0 when the file is
\* missing, unparseable or not a list.
C4_FunctionOfFile ==
    [][GetMultiplier(1) =>
          /\ ret'[1] = MultiplierOf(FileHistory)
          /\ (FileHistory = <<>> => ret'[1] = RetValue(<<1, 1>>))]_vars

\* the samples that count: estimated_pct > 0
Qualifying(s) == SelectSeq(s, LAMBDA e : e.est > 0)

\* a common denominator of the ratios: the least common multiple of the
\* estimates
RECURSIVE LcmEst(_)
LcmEst(q) ==
    IF q = <<>> THEN 1
    ELSE LET l == LcmEst(Tail(q))
         IN (Head(q).est * l) \div GCD(Head(q).est, l)

\* the numerator of sum(act/est) over the common denominator den
RECURSIVE NumOver(_, _)
NumOver(q, den) ==
    IF q = <<>> THEN 0
    ELSE Head(q).act * (den \div Head(q).est) + NumOver(Tail(q), den)

\* est/act pairs of a history
Pairs(s) == [i \in 1..Len(s) |-> <<s[i].est, s[i].act>>]

\* C5: on a stored history (or the empty store) get_multiplier returns the
\* arithmetic mean of actual_pct/estimated_pct over exactly the samples with
\* estimated_pct > 0, and 1.0 when there is none;
\* [(est=0,act=5),(est=10,act=12)] gives 1.2.
C5_MeanOfQualifying ==
    [][(GetMultiplier(1) /\ (names["json"] # 0 \/ samples[1] = <<>>)) =>
          LET q == Qualifying(FileHistory)
              r == ret'[1]
          IN /\ r.kind = "value"
             /\ IF q = <<>> THEN r.n = 1 /\ r.d = 1
                ELSE /\ r.d > 0
                     /\ r.n * LcmEst(q) * Len(q) = r.d * NumOver(q, LcmEst(q))
             /\ (Pairs(FileHistory) = << <<0, 500>>, <<1000, 1200>> >>
                    => r.n = 6 /\ r.d = 5)]_vars

\* C5 witness: get_multiplier has returned 1.2 on the stored history
\* [(est=0,act=5),(est=10,act=12)]
C5_Witness ==
    /\ pc[1] = "idle"
    /\ Pairs(FileHistory) = << <<0, 500>>, <<1000, 1200>> >>
    /\ samples[1] = FileHistory
    /\ ret[1] = RetValue(<<6, 5>>)

\* C6: no call of add_sample or get_multiplier raises to its caller.
C6_NeverRaises == \A p \in Procs : ret[p].kind # "raise"

Tiered == {"custom", "pro", "max5", "max20"}
Rendered == rin # NoRender
Last(q) == q[Len(q)]

\* the line of the screen with this tag (the tags of bars occur at most once)
LineOf(tag) == screen[CHOOSE i \in 1..Len(screen) : screen[i].tag = tag]

\* C7 as claimed: _add_notifications ends with a blank line if and only if
\* one of the three flags is set, whatever the two limits are.
C7_BlankIffAnyFlag ==
    Rendered =>
        LET any == \/ rin.show_switch_notification
                   \/ rin.show_exceed_notification
                   \/ rin.show_tokens_will_run_out
        IN /\ any <=> (notif # <<>> /\ Last(notif).tag = "blank")
           /\ ~any => notif = <<>>

\* C7 as amended: _add_notifications ends with a blank line if and only if
\* it appended a notification: the exceed flag or the will-run-out flag is
\* set, or the switch flag is set and token_limit > original_limit;
\* otherwise it appends nothing.
C7_BlankIffNotificationShown ==
    Rendered =>
        LET fired == \/ rin.show_switch_notification /\ rin.token_limit > rin.original_limit
                     \/ rin.show_exceed_notification
                     \/ rin.show_tokens_will_run_out
        IN /\ fired <=> (notif # <<>> /\ Last(notif).tag = "blank")
           /\ fired => \A i \in 1..(Len(notif) - 1) : notif[i].tag # "blank"
           /\ ~fired => notif = <<>>
           /\ screen = BeforeNotifications(rin) \o notif \o <<Line("footer")>>

\* C7 witness: only the switch flag is set and the limit was not raised, so
\* nothing is appended
C7_Witness ==
    /\ Rendered
    /\ rin.show_switch_notification
    /\ ~rin.show_exceed_notification
    /\ ~rin.show_tokens_will_run_out
    /\ rin.token_limit <= rin.original_limit
    /\ notif = <<>>

\* the colour band of a percentage
Band(pct) == IF pct < 50000 THEN "green" ELSE IF pct < 80000 THEN "yellow" ELSE "red"

\* a metric's true percentage of its limit
TruePct(part, limit) == IF limit > 0 THEN (part * 100000) \div limit ELSE 0

NoOfficial == rin.api_usage.kind # "dict"

\* max(cost%, token%, message%), cost% and message% capped at 100
MaxOfThree ==
    Max(Min(100000, TruePct(rin.session_cost, rin.cost_limit_p90)),
        Max(rin.usage_percentage,
            Min(100000, TruePct(rin.sent_messages, rin.messages_limit_p90))))

\* the percentage the predicted bar is drawn for
PredictedArg ==
    IF rin.calibration_multiplier # 100
    THEN Min(100000, (MaxOfThree * rin.calibration_multiplier) \div 100)
    ELSE MaxOfThree

\* C8 as claimed: in a tiered render a cost, token or messages bar whose
\* metric is at or above 100% of its limit is full, is coloured by the
\* uncapped percentage and has the uncapped percentage printed beside it.
C8_FullBarTruePercentage ==
    (Rendered /\ rin.plan \in Tiered) =>
        LET cost == TruePct(rin.session_cost, rin.cost_limit_p90)
            msgs == TruePct(rin.sent_messages, rin.messages_limit_p90)
            tok == rin.usage_percentage
            full(l, pct) == pct >= 100000 =>
                               /\ l.filled = 50
                               /\ l.color = Band(pct)
                               /\ l.shown = (pct + 50) \div 100
        IN /\ full(LineOf("cost_bar"), cost)
           /\ full(LineOf("token_bar"), tok)
           /\ full(LineOf("messages_bar"), msgs)

\* C8 as amended: in a tiered render every wide bar whose metric is at or
\* above 100% of its limit is full and red; the token bar (and the predicted
\* bar when it is not calibrated) prints the uncapped percentage, the cost
\* and messages bars print 100.0 (their percentages are capped at 100 before
\* they are drawn), the time bar prints the time left (0h 0m) and no
\* percentage; below 100% the colour is green under 50, yellow under 80,
\* else red, and the number is the percentage.
C8_FullBarCappedNumbers ==
    (Rendered /\ rin.plan \in Tiered) =>
        LET cost == TruePct(rin.session_cost, rin.cost_limit_p90)
            msgs == TruePct(rin.sent_messages, rin.messages_limit_p90)
            tok == rin.usage_percentage
            time == TruePct(rin.elapsed_session_minutes, rin.total_session_minutes)
            capped(l, pct) ==
                IF pct >= 100000
                THEN l.filled = 50 /\ l.color = "red" /\ l.shown = 1000
                ELSE /\ l.filled = (50 * pct) \div 100000
                     /\ l.color = Band(pct)
                     /\ l.shown = (pct + 50) \div 100
        IN /\ capped(LineOf("cost_bar"), cost)
           /\ capped(LineOf("messages_bar"), msgs)
           /\ LineOf("token_bar").shown = (tok + 50) \div 100
           /\ LineOf("token_bar").color = Band(tok)
           /\ LineOf("token_bar").filled = IF tok >= 100000 THEN 50 ELSE (50 * tok) \div 100000
           /\ LineOf("time_bar").color = Band(time)
           /\ LineOf("time_bar").filled = IF time >= 100000 THEN 50 ELSE (50 * time) \div 100000
           /\ time >= 100000 => LineOf("time_bar").hours = 0 /\ LineOf("time_bar").mins = 0
           /\ NoOfficial =>
                 /\ LineOf("predicted").color = Band(PredictedArg)
                 /\ LineOf("predicted").filled =
                        (IF PredictedArg >= 100000 THEN 50
                         ELSE (50 * PredictedArg) \div 100000)
                 /\ LineOf("predicted").shown = (PredictedArg + 50) \div 100

\* C8 witness: cost is at 134% of its limit and tokens at 134.0%: both bars
\* are full, the cost bar says 100.0 and the token bar 134.0
C8_Witness ==
    /\ Rendered
    /\ rin.plan \in Tiered
    /\ rin.session_cost = 1340 /\ rin.cost_limit_p90 = 1000
    /\ rin.usage_percentage = 134000
    /\ LineOf("cost_bar").filled = 50 /\ LineOf("cost_bar").shown = 1000
    /\ LineOf("token_bar").filled = 50 /\ LineOf("token_bar").shown = 1340

\* C9 as claimed: with no official usage the predicted line says "Cal."
\* exactly when the multiplier is not 1.0, and shows
\* min(100, max(cost%, token%, message%) * multiplier), never above 100.
C9_PredictedNeverOver100 ==
    (Rendered /\ rin.plan \in Tiered /\ NoOfficial) =>
        LET l == LineOf("predicted")
            m == rin.calibration_multiplier
        IN /\ l.label = (IF m # 100 THEN "Cal." ELSE "Est.")
           /\ l.shown = (Min(100000, (MaxOfThree * m) \div 100) + 50) \div 100
           /\ l.shown <= 1000

\* C9 as amended: the label is as claimed; with a multiplier other than 1.0
\* the line shows min(100, max(cost%, token%, message%) * multiplier), at
\* most 100; with multiplier 1.0 it shows max(cost%, token%, message%)
\* uncapped, which is above 100 exactly when the token percentage is.
C9_PredictedCappedWhenCalibrated ==
    (Rendered /\ rin.plan \in Tiered /\ NoOfficial) =>
        LET l == LineOf("predicted")
            m == rin.calibration_multiplier
        IN /\ l.label = (IF m # 100 THEN "Cal." ELSE "Est.")
           /\ m # 100 => /\ l.shown = (Min(100000, (MaxOfThree * m) \div 100) + 50) \div 100
                         /\ l.shown <= 1000
           /\ m = 100 => /\ l.shown = (MaxOfThree + 50) \div 100
                         /\ (l.shown > 1000 <=> rin.usage_percentage > 100000)

\* C9 witness: with multiplier 1.5 and tokens at 65.0% the line says "Cal."
\* and shows 97.5
C9_Witness ==
    /\ Rendered
    /\ rin.plan \in Tiered
    /\ NoOfficial
    /\ rin.calibration_multiplier = 150
    /\ MaxOfThree = 65000
    /\ LineOf("predicted").label = "Cal."
    /\ LineOf("predicted").shown = 975

Formatted == fmtIn # NoFormat

\* the words for d seconds, by a decomposition into days, hours, minutes
\* and seconds found by search
Decomposition(d) ==
    LET dhm == CHOOSE x \in (0..(MaxDays + 1)) \X (0..23) \X (0..59) :
                   LET rest == d - (x[1] * 86400 + x[2] * 3600 + x[3] * 60)
                   IN rest >= 0 /\ rest < 60
    IN (IF dhm[1] > 0 THEN <<Word(dhm[1], "d")>> ELSE <<>>)
       \o (IF dhm[2] > 0 THEN <<Word(dhm[2], "h")>> ELSE <<>>)
       \o (IF dhm[3] > 0 \/ (dhm[1] = 0 /\ dhm[2] = 0)
           THEN <<Word(dhm[3], "m")>> ELSE <<>>)

\* C10 as claimed: for a well-formed instant d seconds ahead the result is
\* "now" when d <= 0 and otherwise the words of the decomposition alone
\* ("1d 1h", "45m"); a malformed timestamp gives "".
C10_PlainDecomposition ==
    Formatted =>
        LET d == fmtIn.t - fmtIn.now
        IN IF fmtIn.kind # "iso" THEN fmtOut = <<>>
           ELSE IF d <= 0 THEN fmtOut = <<Word(0, "now")>>
           ELSE fmtOut = Decomposition(d)

\* C10 as amended: as claimed, but the decomposition is preceded by "in":
\* 25 hours gives "in 1d 1h", 45 minutes "in 45m" (and less than a minute
\* "in 0m").
C10_InDecomposition ==
    Formatted =>
        LET d == fmtIn.t - fmtIn.now
        IN /\ IF fmtIn.kind # "iso" THEN fmtOut = <<>>
              ELSE IF d <= 0 THEN fmtOut = <<Word(0, "now")>>
              ELSE fmtOut = <<Word(0, "in")>> \o Decomposition(d)
           /\ (fmtIn.kind = "iso" /\ d = 90000) =>
                  fmtOut = <<Word(0, "in"), Word(1, "d"), Word(1, "h")>>
           /\ (fmtIn.kind = "iso" /\ d = 2700) =>
                  fmtOut = <<Word(0, "in"), Word(45, "m")>>

\* C10 witness: an instant 25 hours ahead has been formatted as "in 1d 1h"
C10_Witness ==
    /\ Formatted
    /\ fmtIn.kind = "iso"
    /\ fmtIn.t - fmtIn.now = 90000
    /\ fmtOut = <<Word(0, "in"), Word(1, "d"), Word(1, "h")>>

\* C11: when the first instance has added N <= MAX_SAMPLES samples (every
\* add_sample returned, every write succeeded), an instance constructed then
\* on the same directory holds exactly those N samples (timestamp,
\* estimated_pct, actual_pct) in the order they were added, the same list
\* the first instance holds, and a get_multiplier call on it returns what
\* the first instance's get_multiplier returns.
C11_FreshStoreRoundTrip ==
    [][(pc[1] = "idle" /\ Len(added) <= MAX_SAMPLES) =>
          /\ (pc[2] = "none" /\ pc'[2] = "idle") =>
                 /\ samples'[2] = added
                 /\ samples'[2] = samples[1]
          /\ (pc[2] = "idle" /\ pc'[2] = "idle" /\ ret'[2] # ret[2]) =>
                 /\ samples'[2] = added
                 /\ ret'[2] = MultiplierOf(LoadSamples(samples[1]))]_vars

\* C11 witness: three samples of different values were added by the first
\* instance, the second instance holds them and has returned the multiplier
\* the first one returned, which is not the default
C11_Witness ==
    /\ pc[1] = "idle" /\ pc[2] = "idle"
    /\ Len(added) = 3
    /\ added[1].est # added[2].est /\ added[2].est # added[3].est
    /\ samples[2] = added /\ samples[1] = added
    /\ ret[2].kind = "value" /\ ret[2] = ret[1]
    /\ ret[2] # RetValue(<<1, 1>>)

\* the lines of the screen before the cost bar
BeforeCostBar ==
    SubSeq(screen, 1, (CHOOSE i \in 1..Len(screen) : screen[i].tag = "cost_bar") - 1)

CountOf(q, tags) == Cardinality({i \in 1..Len(q) : q[i].tag \in tags})

\* C12 as claimed: in every tiered-plan render the lines before the cost
\* bar hold exactly one of the two overall-usage sections and at least one
\* overall-usage bar: with an official snapshot (a non-empty mapping,
\* whatever its windows) the official block with one bar per available
\* window and no predicted bar, otherwise exactly one predicted bar and no
\* official block.
C12_OneOverallUsageSection ==
    (Rendered /\ rin.plan \in Tiered) =>
        LET official == CountOf(BeforeCostBar, {"official_title"})
            predicted == CountOf(BeforeCostBar, {"predicted"})
            bars5 == CountOf(BeforeCostBar, {"official_5h"})
            bars7 == CountOf(BeforeCostBar, {"official_7d"})
        IN /\ official + predicted = 1
           /\ bars5 + bars7 + predicted >= 1
           /\ IF rin.api_usage.kind = "dict"
              THEN /\ official = 1 /\ predicted = 0
                   /\ bars5 = (IF rin.api_usage.five_hour.present THEN 1 ELSE 0)
                   /\ bars7 = (IF rin.api_usage.seven_day.present THEN 1 ELSE 0)
              ELSE /\ official = 0 /\ predicted = 1
                   /\ bars5 + bars7 = 0

====
